---- MODULE Spec2Model ----
(***************************************************************************)
(* mdfmt: the line normalizer remove_multiple_blank_lines and the per-file *)
(* driver process_md_file of src/src/process_md.rs.                        *)
(*                                                                         *)
(* A text is a sequence of characters (one-character strings); a line is   *)
(* a sequence of characters without "\n".  Rust indices are 0-based, the   *)
(* sequences here 1-based: line i of the source is lines[i + 1].           *)
(***************************************************************************)
EXTENDS Integers, Sequences, FiniteSets, TLC

\* Longest document, in lines, that the inputs are drawn from.
MaxLines == 4

NL == "\n"
CR == "\r"
SP == " "
\* the grave accent U+0060, the character of a backtick fence
BT == "grave"

\* ---------------------------------------------------------------------
\* str helpers of the Rust standard library, as the source uses them
\* ---------------------------------------------------------------------

\* char::is_whitespace, over the characters the inputs are made of
is_whitespace(c) == c \in {SP, NL, CR}

RECURSIVE trim_start(_)
trim_start(s) ==
    IF s = <<>> THEN <<>>
    ELSE IF is_whitespace(Head(s)) THEN trim_start(Tail(s))
    ELSE s

RECURSIVE trim_end(_)
trim_end(s) ==
    IF s = <<>> THEN <<>>
    ELSE IF is_whitespace(s[Len(s)]) THEN trim_end(SubSeq(s, 1, Len(s) - 1))
    ELSE s

\* str::trim
trim(s) == trim_end(trim_start(s))

\* str::starts_with
starts_with(s, p) == Len(s) >= Len(p) /\ SubSeq(s, 1, Len(p)) = p

\* str::ends_with('\n')
ends_with_newline(s) == s # <<>> /\ s[Len(s)] = NL

\* str::trim_end_matches('\n')
RECURSIVE trim_end_matches_newline(_)
trim_end_matches_newline(s) ==
    IF ends_with_newline(s) THEN trim_end_matches_newline(SubSeq(s, 1, Len(s) - 1))
    ELSE s

\* str::find: the 0-based index of the first occurrence of p in s, -1 for None
RECURSIVE find_from(_, _, _)
find_from(s, p, k) ==
    IF k + Len(p) > Len(s) THEN -1
    ELSE IF SubSeq(s, k + 1, k + Len(p)) = p THEN k
    ELSE find_from(s, p, k + 1)

find(s, p) == find_from(s, p, 0)

\* str::contains
contains(s, p) == find(s, p) >= 0

\* str::split_inclusive('\n'): pieces that keep their terminator, no empty
\* piece after a final terminator
RECURSIVE split_inclusive(_, _)
split_inclusive(s, cur) ==
    IF s = <<>> THEN (IF cur = <<>> THEN <<>> ELSE <<cur>>)
    ELSE IF Head(s) = NL THEN <<Append(cur, NL)>> \o split_inclusive(Tail(s), <<>>)
    ELSE split_inclusive(Tail(s), Append(cur, Head(s)))

\* one line of str::lines: strip the "\n", then one "\r" before it; a final
\* piece without "\n" is kept whole
strip_line_ending(piece) ==
    IF ~ends_with_newline(piece) THEN piece
    ELSE LET l == SubSeq(piece, 1, Len(piece) - 1)
         IN IF l # <<>> /\ l[Len(l)] = CR THEN SubSeq(l, 1, Len(l) - 1) ELSE l

\* str::lines
str_lines(s) ==
    LET pieces == split_inclusive(s, <<>>)
    IN [k \in 1..Len(pieces) |-> strip_line_ending(pieces[k])]

\* [&str]::join("\n")
RECURSIVE join(_)
join(ls) ==
    IF ls = <<>> THEN <<>>
    ELSE IF Len(ls) = 1 THEN ls[1]
    ELSE ls[1] \o <<NL>> \o join(Tail(ls))

\* ---------------------------------------------------------------------
\* remove_multiple_blank_lines
\* ---------------------------------------------------------------------

Dashes    == <<"-", "-", "-">>
Backticks == <<BT, BT, BT>>
Tildes    == <<"~", "~", "~">>

is_ascii_digit(c) == c \in {"0", "1", "2", "3", "4", "5", "6", "7", "8", "9"}

\* chars().take_while(|c| *c == '#').count()
RECURSIVE count_hashes(_)
count_hashes(s) ==
    IF s # <<>> /\ Head(s) = "#" THEN 1 + count_hashes(Tail(s)) ELSE 0

is_heading(line) ==
    LET trimmed == trim(line)
    IN starts_with(trimmed, <<"#">>) /\ count_hashes(trimmed) <= 6

is_list_marker(line) ==
    LET trimmed == trim(line)
    IN \/ starts_with(trimmed, <<"-", SP>>)
       \/ starts_with(trimmed, <<"*", SP>>)
       \/ starts_with(trimmed, <<"+", SP>>)
       \/ /\ trimmed # <<>>
          /\ is_ascii_digit(Head(trimmed))
          /\ contains(trimmed, <<".", SP>>)

\* line.trim().is_empty()
is_blank(line) == trim(line) = <<>>

\* trimmed.starts_with(three grave accents) || trimmed.starts_with("~~~")
is_fence_marker(line) ==
    LET trimmed == trim(line)
    IN starts_with(trimmed, Backticks) \/ starts_with(trimmed, Tildes)

\* lines.get(i + 1).is_some_and(|next| !next.trim().is_empty()), i 1-based
next_is_non_blank(lines, i) == i + 1 <= Len(lines) /\ ~is_blank(lines[i + 1])

\* !result.is_empty() && result.last().is_some_and(|l| !l.trim().is_empty())
last_is_non_blank(result) == result # <<>> /\ ~is_blank(result[Len(result)])

\* The locals of the scan before the first line.  emitted and kind are
\* history fields: emitted[i] is the index in result at which input line i
\* was pushed (0 when it was dropped), kind[i] the branch that handled it.
scan_start ==
    [result            |-> <<>>,
     prev_was_empty    |-> FALSE,
     in_frontmatter    |-> FALSE,
     in_code_fence     |-> FALSE,
     code_fence_marker |-> <<>>,
     emitted           |-> <<>>,
     kind              |-> <<>>]

\* push the line, with a synthetic "" before and/or after it
push_line(st, line, before, after, k) ==
    LET r0 == IF before THEN Append(st.result, <<>>) ELSE st.result
        r1 == Append(r0, line)
        r2 == IF after THEN Append(r1, <<>>) ELSE r1
    IN [st EXCEPT !.result = r2,
                  !.emitted = Append(st.emitted, Len(r1)),
                  !.kind = Append(st.kind, k)]

\* continue without pushing the line
drop_line(st, k) ==
    [st EXCEPT !.emitted = Append(st.emitted, 0), !.kind = Append(st.kind, k)]

\* lines 163-166: the opening frontmatter delimiter at line 0
open_frontmatter(lines, i, st) ==
    [push_line(st, lines[i], FALSE, FALSE, "frontmatter_start")
        EXCEPT !.in_frontmatter = TRUE]

\* Mutation of close_frontmatter: no blank line is pushed after the
\* closing delimiter.
close_frontmatter_bare(lines, i, st) ==
    [push_line(st, lines[i], FALSE, FALSE, "frontmatter_end")
        EXCEPT !.in_frontmatter = FALSE]

\* lines 167-174: the closing frontmatter delimiter
close_frontmatter(lines, i, st) ==
    [push_line(st, lines[i], FALSE, next_is_non_blank(lines, i), "frontmatter_end")
        EXCEPT !.in_frontmatter = FALSE]

\* lines 180-194: a marker line while no fence is open
open_fence(lines, i, st) ==
    [push_line(st, lines[i], last_is_non_blank(st.result), FALSE, "fence_start")
        EXCEPT !.in_code_fence = TRUE,
               !.code_fence_marker =
                    IF starts_with(trim(lines[i]), Backticks) THEN Backticks ELSE Tildes,
               !.prev_was_empty = FALSE]

\* Mutation of is_fence_end: a line of either marker ends the fence.
is_fence_end_any_marker(line, marker) == is_fence_marker(line)

\* Mutation of is_fence_end: only the bare marker ends the fence.
is_fence_end_bare(line, marker) == trim(line) = marker

\* trimmed.starts_with(code_fence_marker) && trimmed.len() >= code_fence_marker.len()
is_fence_end(line, marker) ==
    starts_with(trim(line), marker) /\ Len(trim(line)) >= Len(marker)

\* Mutation of close_fence: the marker is not reset.
close_fence_marker_kept(lines, i, st) ==
    [push_line(st, lines[i], FALSE, next_is_non_blank(lines, i), "fence_end")
        EXCEPT !.in_code_fence = FALSE,
               !.prev_was_empty = FALSE]

\* lines 195-208: a line with the recorded marker while a fence is open
close_fence(lines, i, st) ==
    [push_line(st, lines[i], FALSE, next_is_non_blank(lines, i), "fence_end")
        EXCEPT !.in_code_fence = FALSE,
               !.code_fence_marker = <<>>,
               !.prev_was_empty = FALSE]

\* Mutation of is_list_group_start: the line before is not looked at.
is_list_group_start_every_item(lines, i) == is_list_marker(lines[i])

\* lines 250-251
is_list_group_start(lines, i) ==
    is_list_marker(lines[i]) /\ (i = 1 \/ ~is_list_marker(lines[i - 1]))

\* lines 274-278
is_list_group_end(lines, i) ==
    is_list_marker(lines[i]) /\ ~(i + 1 <= Len(lines) /\ is_list_marker(lines[i + 1]))

\* lines 249-284: a line outside frontmatter and fences
body_line(lines, i, st) ==
    LET line   == lines[i]
        before == /\ is_heading(line) \/ is_list_group_start(lines, i)
                  /\ last_is_non_blank(st.result)
        after  == /\ is_heading(line) \/ is_list_group_end(lines, i)
                  /\ next_is_non_blank(lines, i)
        is_empty == is_blank(line)
        pushed == ~(is_empty /\ st.prev_was_empty)
        r0 == IF before THEN Append(st.result, <<>>) ELSE st.result
        r1 == IF pushed THEN Append(r0, line) ELSE r0
        r2 == IF after THEN Append(r1, <<>>) ELSE r1
    IN [st EXCEPT !.result = r2,
                  !.prev_was_empty = is_empty,
                  !.emitted = Append(st.emitted, IF pushed THEN Len(r1) ELSE 0),
                  !.kind = Append(st.kind, "body")]

\* lines 219-226
prev_was_fence_start(lines, i, st) ==
    i > 1 /\ is_fence_marker(lines[i - 1]) /\ ~st.in_frontmatter

\* lines 229-236
next_is_fence_end(lines, i, st) ==
    i + 1 <= Len(lines) /\ is_fence_end(lines[i + 1], st.code_fence_marker)

\* Mutation of protected_line: frontmatter lines get the blank-line
\* processing of the body.
protected_line_unprotected(lines, i, st) ==
    IF st.in_frontmatter THEN body_line(lines, i, st)
    ELSE LET k == "in_fence"
         IN IF /\ st.in_code_fence
               /\ is_blank(lines[i])
               /\ (prev_was_fence_start(lines, i, st) \/ next_is_fence_end(lines, i, st))
            THEN drop_line(st, k)
            ELSE [push_line(st, lines[i], FALSE, FALSE, k) EXCEPT !.prev_was_empty = FALSE]

\* lines 213-247: a line inside frontmatter or inside a fence
protected_line(lines, i, st) ==
    LET k == IF st.in_frontmatter THEN "in_frontmatter" ELSE "in_fence"
    IN IF /\ st.in_code_fence
          /\ is_blank(lines[i])
          /\ (prev_was_fence_start(lines, i, st) \/ next_is_fence_end(lines, i, st))
       THEN drop_line(st, k)
       ELSE [push_line(st, lines[i], FALSE, FALSE, k) EXCEPT !.prev_was_empty = FALSE]

\* Mutation of loop_body: the test for line 0 is missing, a --- line opens
\* frontmatter wherever none is open.
loop_body_any_line(lines, i, st) ==
    IF ~st.in_frontmatter /\ ~st.in_code_fence /\ trim(lines[i]) = Dashes THEN
        open_frontmatter(lines, i, st)
    ELSE IF st.in_frontmatter /\ trim(lines[i]) = Dashes THEN
        close_frontmatter(lines, i, st)
    ELSE IF ~st.in_frontmatter /\ is_fence_marker(lines[i]) /\ ~st.in_code_fence THEN
        open_fence(lines, i, st)
    ELSE IF /\ ~st.in_frontmatter
            /\ st.in_code_fence
            /\ is_fence_end(lines[i], st.code_fence_marker) THEN
        close_fence(lines, i, st)
    ELSE IF st.in_frontmatter \/ st.in_code_fence THEN
        protected_line(lines, i, st)
    ELSE
        body_line(lines, i, st)

\* One iteration of "for (i, line) in lines.iter().enumerate()".
loop_body(lines, i, st) ==
    IF i = 1 /\ trim(lines[i]) = Dashes THEN
        open_frontmatter(lines, i, st)
    ELSE IF st.in_frontmatter /\ trim(lines[i]) = Dashes THEN
        close_frontmatter(lines, i, st)
    ELSE IF ~st.in_frontmatter /\ is_fence_marker(lines[i]) /\ ~st.in_code_fence THEN
        open_fence(lines, i, st)
    ELSE IF /\ ~st.in_frontmatter
            /\ st.in_code_fence
            /\ is_fence_end(lines[i], st.code_fence_marker) THEN
        close_fence(lines, i, st)
    ELSE IF st.in_frontmatter \/ st.in_code_fence THEN
        protected_line(lines, i, st)
    ELSE
        body_line(lines, i, st)

\* Mutation of preserve_ending: the joined lines are returned as they are.
preserve_ending_joined(content, result) == join(result)

\* lines 288-295: "Preserve the original ending (newline or not)"
preserve_ending(content, result) ==
    LET result_content == join(result)
    IN IF ends_with_newline(content) /\ ~ends_with_newline(result_content)
       THEN Append(result_content, NL)
       ELSE IF ~ends_with_newline(content) /\ ends_with_newline(result_content)
       THEN trim_end_matches_newline(result_content)
       ELSE result_content

\* the scan from line i on
RECURSIVE scan_from(_, _, _)
scan_from(lines, i, st) ==
    IF i > Len(lines) THEN st ELSE scan_from(lines, i + 1, loop_body(lines, i, st))

remove_multiple_blank_lines(content) ==
    preserve_ending(content, scan_from(str_lines(content), 1, scan_start).result)

\* ---------------------------------------------------------------------
\* process_md_file
\* ---------------------------------------------------------------------

\* Mutation of is_whole_empty: is_empty() without the trim().
is_whole_empty_untrimmed(original_content) == original_content = <<>>

\* line 45: original_content.trim().is_empty()
is_whole_empty(original_content) == trim(original_content) = <<>>

\* lines 57-70: (frontmatter.is_some(), body)
split_frontmatter(original_content) ==
    IF starts_with(original_content, Dashes \o <<NL>>) THEN
        LET stripped == SubSeq(original_content, 5, Len(original_content))
            end_pos  == find(stripped, <<NL>> \o Dashes \o <<NL>>)
        IN IF end_pos >= 0 THEN
               LET frontmatter_end == 4 + end_pos + 5
               IN [frontmatter |-> TRUE,
                   body |-> SubSeq(original_content, frontmatter_end + 1,
                                   Len(original_content))]
           ELSE [frontmatter |-> FALSE, body |-> original_content]
    ELSE [frontmatter |-> FALSE, body |-> original_content]

\* frontmatter.is_some() && body.trim().is_empty()
is_body_empty(original_content) ==
    LET fb == split_frontmatter(original_content)
    IN fb.frontmatter /\ trim(fb.body) = <<>>

\* ---------------------------------------------------------------------
\* Inputs
\* ---------------------------------------------------------------------

\* The lines the input documents are made of: empty, whitespace-only, the
\* frontmatter delimiter bare and indented, a heading, a bullet and a
\* numbered list item, the two fence markers, and plain text.
LineTokens ==
    { <<>>,
      <<SP>>,
      Dashes,
      <<SP>> \o Dashes,
      <<"#", SP, "h">>,
      <<"-", SP, "a">>,
      <<"1", ".", SP, "b">>,
      Backticks,
      Tildes,
      <<"t">> }

Docs == UNION { [1..n -> LineTokens] : n \in 0..MaxLines }

\* the text of a document: every line ends in "\n", the last one only
\* when newline_at_end
RECURSIVE text_of(_, _)
text_of(ls, newline_at_end) ==
    IF ls = <<>> THEN <<>>
    ELSE IF Len(ls) = 1 THEN (IF newline_at_end THEN Append(ls[1], NL) ELSE ls[1])
    ELSE Append(ls[1], NL) \o text_of(Tail(ls), newline_at_end)

Contents == { text_of(ls, e) : ls \in Docs, e \in BOOLEAN }

\* ---------------------------------------------------------------------
\* State
\* ---------------------------------------------------------------------

VARIABLES
    pc,                 \* position in remove_multiple_blank_lines
    content,            \* its argument
    lines,              \* content.lines().collect()
    i,                  \* 1-based index of the next line to scan
    result,             \* the Vec of output lines
    prev_was_empty,
    in_frontmatter,
    in_code_fence,
    code_fence_marker,
    emitted,            \* history: where each scanned line went in result
    kind,               \* history: the branch that handled each scanned line
    output,             \* the returned String
    again,              \* remove_multiple_blank_lines(output), once applied
    file,               \* the text of the file at path, Absent once removed
    allow_delete,
    at,                 \* position in process_md_file
    original_content,
    processed_content,
    ret,                \* Ok((deleted, modified)) as <<deleted, modified>>, or Err
    fs_ops,             \* history: the filesystem calls made, with their outcome
    cli_dry_run,        \* cli.dry_run
    cli_delete,         \* cli.delete
    disk,               \* the markdown files under the path: path -> [exists, text]
    disk0,              \* history: disk when main started
    main_pc,            \* position in main
    md_files,           \* the discovered paths, in order
    worker,             \* per path: "pending", "read" (text in memory), "done"
    worker_content,     \* per path: original_content of its process_md_file call
    results,            \* per path: [ok, status], the element of results
    fs_log,             \* history: <<path, filesystem call, succeeded>>
    next_result,        \* 1-based index of the summary loop
    deleted_count,
    modified_count,
    error_count,
    exit_code           \* -1 while the process runs

None == "none"
Absent == "absent"
Err == "Err"

scan_vars == <<result, prev_was_empty, in_frontmatter, in_code_fence,
               code_fence_marker, emitted, kind>>

norm_vars == <<pc, content, lines, i, scan_vars, output, again>>

file_vars == <<file, allow_delete, at, original_content, processed_content, ret, fs_ops>>

main_vars == <<cli_dry_run, cli_delete, disk, disk0, main_pc, md_files, worker,
               worker_content, results, fs_log, next_result, deleted_count,
               modified_count, error_count, exit_code>>

vars == <<norm_vars, file_vars, main_vars>>

scan_state ==
    [result            |-> result,
     prev_was_empty    |-> prev_was_empty,
     in_frontmatter    |-> in_frontmatter,
     in_code_fence     |-> in_code_fence,
     code_fence_marker |-> code_fence_marker,
     emitted           |-> emitted,
     kind              |-> kind]

\* entry of remove_multiple_blank_lines(c): lines collected, locals set
Enter(c) ==
    /\ pc = "scan"
    /\ content = c
    /\ lines = str_lines(c)
    /\ i = 1
    /\ result = scan_start.result
    /\ prev_was_empty = scan_start.prev_was_empty
    /\ in_frontmatter = scan_start.in_frontmatter
    /\ in_code_fence = scan_start.in_code_fence
    /\ code_fence_marker = scan_start.code_fence_marker
    /\ emitted = scan_start.emitted
    /\ kind = scan_start.kind
    /\ output = None
    /\ again = None

\* main is not running
NoMain ==
    /\ cli_dry_run = FALSE
    /\ cli_delete = FALSE
    /\ disk = <<>>
    /\ disk0 = <<>>
    /\ main_pc = "idle"
    /\ md_files = <<>>
    /\ worker = <<>>
    /\ worker_content = <<>>
    /\ results = <<>>
    /\ fs_log = <<>>
    /\ next_result = 1
    /\ deleted_count = 0
    /\ modified_count = 0
    /\ error_count = 0
    /\ exit_code = -1

\* no call of process_md_file is under way
NoFile ==
    /\ file = None
    /\ allow_delete = FALSE
    /\ at = "idle"
    /\ original_content = None
    /\ processed_content = None
    /\ ret = None
    /\ fs_ops = <<>>

Init == (\E c \in Contents : Enter(c)) /\ NoFile /\ NoMain

\* one iteration of the for loop
ScanLine ==
    /\ pc = "scan"
    /\ i <= Len(lines)
    /\ LET st == loop_body(lines, i, scan_state)
       IN /\ result' = st.result
          /\ prev_was_empty' = st.prev_was_empty
          /\ in_frontmatter' = st.in_frontmatter
          /\ in_code_fence' = st.in_code_fence
          /\ code_fence_marker' = st.code_fence_marker
          /\ emitted' = st.emitted
          /\ kind' = st.kind
    /\ i' = i + 1
    /\ UNCHANGED <<pc, content, lines, output, again, file_vars, main_vars>>

\* the join and the ending fix-up after the loop, and the return
Finish ==
    /\ pc = "scan"
    /\ i > Len(lines)
    /\ output' = preserve_ending(content, result)
    /\ pc' = "done"
    /\ UNCHANGED <<content, lines, i, scan_vars, again, file_vars, main_vars>>

\* the caller formats the returned text once more
Reapply ==
    /\ pc = "done"
    /\ again' = remove_multiple_blank_lines(output)
    /\ pc' = "reapplied"
    /\ UNCHANGED <<content, lines, i, scan_vars, output, file_vars, main_vars>>

Next == ScanLine \/ Finish \/ Reapply

Spec == Init /\ [][Next]_vars

\* ---------------------------------------------------------------------
\* process_md_file(path, allow_delete) on one file
\* ---------------------------------------------------------------------

\* no call of remove_multiple_blank_lines is being traced
NoScan ==
    /\ pc = "idle"
    /\ content = None
    /\ lines = <<>>
    /\ i = 1
    /\ result = scan_start.result
    /\ prev_was_empty = scan_start.prev_was_empty
    /\ in_frontmatter = scan_start.in_frontmatter
    /\ in_code_fence = scan_start.in_code_fence
    /\ code_fence_marker = scan_start.code_fence_marker
    /\ emitted = scan_start.emitted
    /\ kind = scan_start.kind
    /\ output = None
    /\ again = None

InitFile ==
    /\ NoScan
    /\ NoMain
    /\ file \in Contents
    /\ allow_delete \in BOOLEAN
    /\ at = "read"
    /\ original_content = None
    /\ processed_content = None
    /\ ret = None
    /\ fs_ops = <<>>

\* "?" on a failed filesystem call: return the error
ReturnErr(op) ==
    /\ ret' = Err
    /\ at' = "returned"
    /\ fs_ops' = Append(fs_ops, <<op, FALSE>>)

\* Mutation of DeleteIfAllowed: the file is removed whatever allow_delete is.
DeleteIfAllowed_unconditional ==
    \/ /\ file' = Absent
       /\ ret' = <<TRUE, FALSE>>
       /\ at' = "returned"
       /\ fs_ops' = Append(fs_ops, <<"remove_file", TRUE>>)
    \/ /\ ReturnErr("remove_file")
       /\ UNCHANGED file

\* lines 47-53 and 74-80: delete if deletion is allowed, else leave alone
DeleteIfAllowed ==
    IF allow_delete THEN
        \/ /\ file' = Absent
           /\ ret' = <<TRUE, FALSE>>
           /\ at' = "returned"
           /\ fs_ops' = Append(fs_ops, <<"remove_file", TRUE>>)
        \/ /\ ReturnErr("remove_file")
           /\ UNCHANGED file
    ELSE
        /\ ret' = <<FALSE, FALSE>>
        /\ at' = "returned"
        /\ UNCHANGED <<file, fs_ops>>

\* line 43: fs::read_to_string(path)?
ReadFile ==
    /\ at = "read"
    /\ \/ /\ original_content' = file
          /\ at' = "check_empty"
          /\ fs_ops' = Append(fs_ops, <<"read_to_string", TRUE>>)
          /\ UNCHANGED ret
       \/ /\ ReturnErr("read_to_string")
          /\ UNCHANGED original_content
    /\ UNCHANGED <<file, allow_delete, processed_content, norm_vars, main_vars>>

\* lines 45-54
CheckEmpty ==
    /\ at = "check_empty"
    /\ IF is_whole_empty(original_content)
       THEN DeleteIfAllowed
       ELSE at' = "check_frontmatter" /\ UNCHANGED <<file, ret, fs_ops>>
    /\ UNCHANGED <<allow_delete, original_content, processed_content, norm_vars, main_vars>>

\* lines 56-81
CheckFrontmatter ==
    /\ at = "check_frontmatter"
    /\ IF is_body_empty(original_content)
       THEN DeleteIfAllowed
       ELSE at' = "normalize" /\ UNCHANGED <<file, ret, fs_ops>>
    /\ UNCHANGED <<allow_delete, original_content, processed_content, norm_vars, main_vars>>

\* line 83
Normalize ==
    /\ at = "normalize"
    /\ processed_content' = remove_multiple_blank_lines(original_content)
    /\ at' = "compare"
    /\ UNCHANGED <<file, allow_delete, original_content, ret, fs_ops, norm_vars, main_vars>>

\* Mutation of WriteIfModified: the text written is the original text.
WriteIfModified_original ==
    /\ at = "compare"
    /\ IF processed_content # original_content THEN
          \/ /\ file' = original_content
             /\ ret' = <<FALSE, TRUE>>
             /\ at' = "returned"
             /\ fs_ops' = Append(fs_ops, <<"write", TRUE>>)
          \/ /\ ReturnErr("write")
             /\ file' \in {file, <<>>}
       ELSE
          /\ ret' = <<FALSE, FALSE>>
          /\ at' = "returned"
          /\ UNCHANGED <<file, fs_ops>>
    /\ UNCHANGED <<allow_delete, original_content, processed_content, norm_vars, main_vars>>

\* lines 86-91; a failed fs::write has created or truncated the file or
\* has not touched it
WriteIfModified ==
    /\ at = "compare"
    /\ IF processed_content # original_content THEN
          \/ /\ file' = processed_content
             /\ ret' = <<FALSE, TRUE>>
             /\ at' = "returned"
             /\ fs_ops' = Append(fs_ops, <<"write", TRUE>>)
          \/ /\ ReturnErr("write")
             /\ file' \in {file, <<>>}
       ELSE
          /\ ret' = <<FALSE, FALSE>>
          /\ at' = "returned"
          /\ UNCHANGED <<file, fs_ops>>
    /\ UNCHANGED <<allow_delete, original_content, processed_content, norm_vars, main_vars>>

NextFile == ReadFile \/ CheckEmpty \/ CheckFrontmatter \/ Normalize \/ WriteIfModified

SpecFile == InitFile /\ [][NextFile]_vars

\* ---------------------------------------------------------------------
\* remove_multiple_blank_lines on documents of fence lines: delimiters of
\* both markers, with more marker characters and with an info string
\* ---------------------------------------------------------------------

Backticks4 == <<BT, BT, BT, BT>>
BackticksInfo == <<BT, BT, BT, "r">>
TildesInfo == <<"~", "~", "~", "~", "r">>

FenceTokens ==
    { <<>>,
      <<"t">>,
      <<"#", SP, "h">>,
      Dashes,
      Backticks,
      Tildes,
      Backticks4,
      BackticksInfo,
      TildesInfo }

FenceDocs == UNION { [1..n -> FenceTokens] : n \in 0..MaxLines }

FenceContents == { text_of(ls, e) : ls \in FenceDocs, e \in BOOLEAN }

InitFence == (\E c \in FenceContents : Enter(c)) /\ NoFile /\ NoMain

SpecFence == InitFence /\ [][Next]_vars

\* ---------------------------------------------------------------------
\* remove_multiple_blank_lines on longer documents of fewer kinds of line
\* ---------------------------------------------------------------------

MaxLongLines == 5

LongTokens ==
    { <<>>,
      Dashes,
      <<"t">>,
      <<"#", SP, "h">>,
      <<"-", SP, "a">>,
      Backticks }

LongDocs == UNION { [1..n -> LongTokens] : n \in 0..MaxLongLines }

LongContents == { text_of(ls, e) : ls \in LongDocs, e \in BOOLEAN }

InitLong == (\E c \in LongContents : Enter(c)) /\ NoFile /\ NoMain

SpecLong == InitLong /\ [][Next]_vars

\* ---------------------------------------------------------------------
\* remove_multiple_blank_lines on short texts of any characters, carriage
\* returns among them
\* ---------------------------------------------------------------------

MaxChars == 5

Chars == {"t", "#", SP, NL, CR}

RawContents == UNION { [1..n -> Chars] : n \in 0..MaxChars }

InitRaw == (\E c \in RawContents : Enter(c)) /\ NoFile /\ NoMain

SpecRaw == InitRaw /\ [][Next]_vars

\* ---------------------------------------------------------------------
\* main (src/src/main.rs): discovery, dry run, parallel processing, summary
\* ---------------------------------------------------------------------

\* Most markdown files under the path.
MaxFiles == 2

\* The texts of the files: whitespace only, frontmatter with an empty body,
\* a text the normalizer changes, a text in normal form.
FileTexts ==
    { text_of(<< <<>> >>, TRUE),
      text_of(<<Dashes, <<"t">>, Dashes>>, TRUE),
      text_of(<< <<"t">>, <<>>, <<>>, <<"t">> >>, TRUE),
      text_of(<< <<"t">> >>, TRUE) }

\* process_md.rs lines 45-91: what process_md_file does once it has read
\* the text of the file: the filesystem call it makes (or "none"), the text it
\* writes, and the (deleted, modified) it returns when that call succeeds
process_md_file(text, may_delete) ==
    IF is_whole_empty(text) \/ is_body_empty(text) THEN
        IF may_delete
        THEN [op |-> "remove_file", text |-> <<>>, deleted |-> TRUE, modified |-> FALSE]
        ELSE [op |-> "none", text |-> <<>>, deleted |-> FALSE, modified |-> FALSE]
    ELSE
        LET processed == remove_multiple_blank_lines(text)
        IN IF processed # text
           THEN [op |-> "write", text |-> processed, deleted |-> FALSE, modified |-> TRUE]
           ELSE [op |-> "none", text |-> <<>>, deleted |-> FALSE, modified |-> FALSE]

\* the status texts, word by word
status_deleted ==
    <<"deleted", "(empty", "body", "with", "frontmatter", "or", "completely", "empty)">>
status_modified == <<"modified", "(removed", "multiple", "blank", "lines)">>

\* Mutation of status_no_changes: a wording that has the word the summary
\* loop looks for.
status_not_modified == <<"not", "modified">>

status_no_changes == <<"no", "changes", "needed">>

\* lines 107-118: the result of the map closure
ok_result(deleted, modified) ==
    [ok |-> TRUE,
     status |-> IF deleted THEN status_deleted
                ELSE IF modified THEN status_modified
                ELSE status_no_changes]

err_result == [ok |-> FALSE, status |-> <<"error:">>]

no_result == [ok |-> FALSE, status |-> <<>>]

\* Mutation of exit_status: the error count does not reach the exit status.
exit_status_zero(errors) == 0

\* lines 154-157: process::exit(1) if error_count > 0, else return from main
exit_status(errors) == IF errors > 0 THEN 1 ELSE 0

in_md_files(p) == \E k \in 1..Len(md_files) : md_files[k] = p

InitMain ==
    /\ NoScan
    /\ NoFile
    /\ cli_dry_run \in BOOLEAN
    /\ cli_delete \in BOOLEAN
    /\ \E n \in 0..MaxFiles :
          /\ disk \in [1..n -> [exists : {TRUE}, text : FileTexts]]
          /\ worker = [p \in 1..n |-> "pending"]
          /\ worker_content = [p \in 1..n |-> <<>>]
          /\ results = [p \in 1..n |-> no_result]
    /\ disk0 = disk
    /\ main_pc = "start"
    /\ md_files = <<>>
    /\ fs_log = <<>>
    /\ next_result = 1
    /\ deleted_count = 0
    /\ modified_count = 0
    /\ error_count = 0
    /\ exit_code = -1

\* lines 42-45, 50-53, 66-72: the path does not exist or is no .md file
StartupError ==
    /\ main_pc = "start"
    /\ main_pc' = "exited"
    /\ exit_code' = 1
    /\ UNCHANGED <<cli_dry_run, cli_delete, disk, disk0, md_files, worker,
                   worker_content, results, fs_log, next_result, deleted_count,
                   modified_count, error_count, norm_vars, file_vars>>

\* lines 57-83: the one file named, or every markdown file of the directory
FindFiles ==
    /\ main_pc = "start"
    /\ \/ md_files' = [k \in DOMAIN disk |-> k]
       \/ \E p \in DOMAIN disk : md_files' = <<p>>
    /\ main_pc' = "found"
    /\ UNCHANGED <<cli_dry_run, cli_delete, disk, disk0, worker, worker_content,
                   results, fs_log, next_result, deleted_count, modified_count,
                   error_count, exit_code, norm_vars, file_vars>>

\* lines 85-88
NoFilesFound ==
    /\ main_pc = "found"
    /\ md_files = <<>>
    /\ main_pc' = "exited"
    /\ exit_code' = 0
    /\ UNCHANGED <<cli_dry_run, cli_delete, disk, disk0, md_files, worker,
                   worker_content, results, fs_log, next_result, deleted_count,
                   modified_count, error_count, norm_vars, file_vars>>

\* Mutation of DryRun: the return after the listing is missing.
DryRun_no_return ==
    /\ main_pc = "found"
    /\ md_files # <<>>
    /\ cli_dry_run
    /\ main_pc' = "par_iter"
    /\ UNCHANGED <<cli_dry_run, cli_delete, disk, disk0, md_files, worker,
                   worker_content, results, fs_log, next_result, deleted_count,
                   modified_count, error_count, exit_code, norm_vars, file_vars>>

\* lines 96-102
DryRun ==
    /\ main_pc = "found"
    /\ md_files # <<>>
    /\ cli_dry_run
    /\ main_pc' = "exited"
    /\ exit_code' = 0
    /\ UNCHANGED <<cli_dry_run, cli_delete, disk, disk0, md_files, worker,
                   worker_content, results, fs_log, next_result, deleted_count,
                   modified_count, error_count, norm_vars, file_vars>>

\* line 104: md_files.par_iter()
Dispatch ==
    /\ main_pc = "found"
    /\ md_files # <<>>
    /\ ~cli_dry_run
    /\ main_pc' = "par_iter"
    /\ UNCHANGED <<cli_dry_run, cli_delete, disk, disk0, md_files, worker,
                   worker_content, results, fs_log, next_result, deleted_count,
                   modified_count, error_count, exit_code, norm_vars, file_vars>>

\* line 107 into process_md.rs line 43: a task reads its file
WorkerRead(p) ==
    /\ main_pc = "par_iter"
    /\ in_md_files(p)
    /\ worker[p] = "pending"
    /\ \/ /\ disk[p].exists
          /\ worker_content' = [worker_content EXCEPT ![p] = disk[p].text]
          /\ worker' = [worker EXCEPT ![p] = "read"]
          /\ fs_log' = Append(fs_log, <<p, "read_to_string", TRUE>>)
          /\ UNCHANGED results
       \/ /\ results' = [results EXCEPT ![p] = err_result]
          /\ worker' = [worker EXCEPT ![p] = "done"]
          /\ fs_log' = Append(fs_log, <<p, "read_to_string", FALSE>>)
          /\ UNCHANGED worker_content
    /\ UNCHANGED <<cli_dry_run, cli_delete, disk, disk0, main_pc, md_files,
                   next_result, deleted_count, modified_count, error_count,
                   exit_code, norm_vars, file_vars>>

\* process_md.rs lines 45-91 and main.rs lines 107-119: the task decides,
\* makes its one call if any, and yields its result
WorkerProcess(p) ==
    /\ main_pc = "par_iter"
    /\ in_md_files(p)
    /\ worker[p] = "read"
    /\ worker' = [worker EXCEPT ![p] = "done"]
    /\ LET plan == process_md_file(worker_content[p], cli_delete)
       IN IF plan.op = "none" THEN
              /\ results' = [results EXCEPT ![p] = ok_result(plan.deleted, plan.modified)]
              /\ UNCHANGED <<disk, fs_log>>
          ELSE
              \/ /\ disk' = [disk EXCEPT ![p] =
                               IF plan.op = "remove_file"
                               THEN [exists |-> FALSE, text |-> <<>>]
                               ELSE [exists |-> TRUE, text |-> plan.text]]
                 /\ results' = [results EXCEPT ![p] = ok_result(plan.deleted, plan.modified)]
                 /\ fs_log' = Append(fs_log, <<p, plan.op, TRUE>>)
              \/ /\ results' = [results EXCEPT ![p] = err_result]
                 /\ fs_log' = Append(fs_log, <<p, plan.op, FALSE>>)
                 /\ \/ UNCHANGED disk
                    \/ /\ plan.op = "write"
                       /\ disk' = [disk EXCEPT ![p] = [exists |-> TRUE, text |-> <<>>]]
    /\ UNCHANGED <<cli_dry_run, cli_delete, disk0, main_pc, md_files, worker_content,
                   next_result, deleted_count, modified_count, error_count,
                   exit_code, norm_vars, file_vars>>

\* line 121: collect() returns once every task has yielded
Collect ==
    /\ main_pc = "par_iter"
    /\ \A k \in 1..Len(md_files) : worker[md_files[k]] = "done"
    /\ main_pc' = "summary"
    /\ UNCHANGED <<cli_dry_run, cli_delete, disk, disk0, md_files, worker,
                   worker_content, results, fs_log, next_result, deleted_count,
                   modified_count, error_count, exit_code, norm_vars, file_vars>>

\* lines 127-144: one iteration of the summary loop
CountResult ==
    /\ main_pc = "summary"
    /\ next_result <= Len(md_files)
    /\ LET r == results[md_files[next_result]]
       IN IF r.ok THEN
              /\ deleted_count' =
                    IF contains(r.status, <<"deleted">>)
                    THEN deleted_count + 1 ELSE deleted_count
              /\ modified_count' =
                    IF ~contains(r.status, <<"deleted">>) /\ contains(r.status, <<"modified">>)
                    THEN modified_count + 1 ELSE modified_count
              /\ UNCHANGED error_count
          ELSE
              /\ error_count' = error_count + 1
              /\ UNCHANGED <<deleted_count, modified_count>>
    /\ next_result' = next_result + 1
    /\ UNCHANGED <<cli_dry_run, cli_delete, disk, disk0, main_pc, md_files, worker,
                   worker_content, results, fs_log, exit_code, norm_vars, file_vars>>

\* lines 146-157: the summary is printed and the process ends
Exit ==
    /\ main_pc = "summary"
    /\ next_result > Len(md_files)
    /\ exit_code' = exit_status(error_count)
    /\ main_pc' = "exited"
    /\ UNCHANGED <<cli_dry_run, cli_delete, disk, disk0, md_files, worker,
                   worker_content, results, fs_log, next_result, deleted_count,
                   modified_count, error_count, norm_vars, file_vars>>

NextMain ==
    \/ StartupError
    \/ FindFiles
    \/ NoFilesFound
    \/ DryRun
    \/ Dispatch
    \/ \E p \in DOMAIN disk : WorkerRead(p)
    \/ \E p \in DOMAIN disk : WorkerProcess(p)
    \/ Collect
    \/ CountResult
    \/ Exit

SpecMain == InitMain /\ [][NextMain]_vars

\* ---------------------------------------------------------------------
\* Vocabulary of the properties: the regions of a document as spec.md
\* section 3 defines them.  Frontmatter exists when line 0 trims to "---"
\* and a later line does; a fence span runs from a marker line to the first
\* later line that starts with the same marker.
\* ---------------------------------------------------------------------

has_frontmatter(ls) ==
    /\ Len(ls) >= 2
    /\ trim(ls[1]) = Dashes
    /\ \E k \in 2..Len(ls) : trim(ls[k]) = Dashes

first_closing(ls) ==
    CHOOSE k \in 2..Len(ls) :
        trim(ls[k]) = Dashes /\ \A j \in 2..(k - 1) : trim(ls[j]) # Dashes

RECURSIVE body_regions(_, _, _)
body_regions(ls, k, marker) ==
    IF k > Len(ls) THEN <<>>
    ELSE LET t == trim(ls[k])
         IN IF marker = <<>> THEN
                IF starts_with(t, Backticks)
                THEN <<"fence_open">> \o body_regions(ls, k + 1, Backticks)
                ELSE IF starts_with(t, Tildes)
                THEN <<"fence_open">> \o body_regions(ls, k + 1, Tildes)
                ELSE <<"body">> \o body_regions(ls, k + 1, <<>>)
            ELSE IF starts_with(t, marker)
            THEN <<"fence_close">> \o body_regions(ls, k + 1, <<>>)
            ELSE <<"fence_in">> \o body_regions(ls, k + 1, marker)

Regions(ls) ==
    IF has_frontmatter(ls)
    THEN LET c == first_closing(ls)
         IN [k \in 1..c |-> IF k = 1 THEN "fm_open"
                            ELSE IF k = c THEN "fm_close" ELSE "fm_in"]
            \o body_regions(ls, c + 1, <<>>)
    ELSE body_regions(ls, 1, <<>>)

Interior == {"fm_in", "fence_in"}

\* line 0 opens frontmatter that no later line closes
Unterminated(ls) == Len(ls) >= 1 /\ trim(ls[1]) = Dashes /\ ~has_frontmatter(ls)

\* remove_multiple_blank_lines has returned
Returned == pc \in {"done", "reapplied"}

\* the loop is over: kind and emitted cover every line
Scanned == pc \in {"done", "reapplied"} \/ (pc = "scan" /\ i > Len(lines))

\* the lines of the returned text and their regions
out_lines == str_lines(output)
out_regions == Regions(out_lines)

\* ---------------------------------------------------------------------
\* Properties of remove_multiple_blank_lines (checked under Spec)
\* ---------------------------------------------------------------------

\* C1: idempotence.  Formatting the returned text once more returns the
\* same text, for every input.
C1_Idempotence == pc = "reapplied" => again = output

\* C2: blank-run collapse.  The returned text has no two consecutive blank
\* lines outside the interior of a frontmatter block or of a fence span.
C2_BlankRunCollapse ==
    Returned =>
        \A k \in 1..(Len(out_lines) - 1) :
            ~ /\ is_blank(out_lines[k])
              /\ is_blank(out_lines[k + 1])
              /\ out_regions[k] \notin Interior
              /\ out_regions[k + 1] \notin Interior

\* C3: trailing-newline preservation.  The returned text ends with a
\* newline if and only if the input does.
C3_TrailingNewline ==
    Returned => (ends_with_newline(output) <=> ends_with_newline(content))

\* C3 witness: an input without a final newline whose last line is
\* whitespace-only and was collapsed away, so that the joined lines end in
\* a newline that the return strips.
C3_Witness ==
    /\ pc = "done"
    /\ ~ends_with_newline(content)
    /\ ends_with_newline(join(result))
    /\ emitted[Len(emitted)] = 0
    /\ ~ends_with_newline(output)

\* C4: frontmatter opacity.  With frontmatter opened at line 0 and closed
\* by a later line, the lines from the opening through the closing
\* delimiter are the first lines of the returned text, unchanged, in order
\* and with nothing between them; each line between the delimiters was
\* handled as a frontmatter line, whatever it looks like.
C4_FrontmatterOpacity ==
    Returned /\ has_frontmatter(lines) =>
        LET c == first_closing(lines)
        IN /\ Len(out_lines) >= c
           /\ SubSeq(out_lines, 1, c) = SubSeq(lines, 1, c)
           /\ \A k \in 2..(c - 1) : kind[k] = "in_frontmatter"

\* C4 witness: frontmatter whose interior is a run of two blank lines, both
\* in the returned text.
C4_Witness ==
    /\ pc = "done"
    /\ has_frontmatter(lines)
    /\ first_closing(lines) = 4
    /\ is_blank(lines[2])
    /\ is_blank(lines[3])
    /\ is_blank(out_lines[2])
    /\ is_blank(out_lines[3])
    /\ trim(out_lines[4]) = Dashes

\* the last line before line k that was pushed
prev_emitted(k) ==
    CHOOSE j \in 1..(k - 1) : emitted[j] # 0 /\ \A m \in (j + 1)..(k - 1) : emitted[m] = 0

\* C5: fence interior.  While a fence is open, a blank line is dropped
\* exactly when it directly follows the delimiter that opened the fence or
\* directly precedes the delimiter that closes it; every other interior
\* line is pushed unchanged, right after the previous pushed line.
C5_FenceInterior ==
    Scanned =>
        \A k \in 1..Len(kind) : kind[k] = "in_fence" =>
            LET follows_open   == kind[k - 1] = "fence_start"
                precedes_close == k + 1 <= Len(kind) /\ kind[k + 1] = "fence_end"
            IN IF is_blank(lines[k]) /\ (follows_open \/ precedes_close)
               THEN emitted[k] = 0
               ELSE /\ emitted[k] # 0
                    /\ result[emitted[k]] = lines[k]
                    /\ emitted[k] = emitted[prev_emitted(k)] + 1

\* exactly one blank line before line k of the returned text unless it is
\* the first, and after it unless it is the last
one_blank_before(k) ==
    k > 1 => is_blank(out_lines[k - 1]) /\ (k > 2 => ~is_blank(out_lines[k - 2]))

one_blank_after(k) ==
    k < Len(out_lines) =>
        is_blank(out_lines[k + 1]) /\ (k + 2 <= Len(out_lines) => ~is_blank(out_lines[k + 2]))

\* C6: heading spacing.  Every heading of the returned text that lies
\* outside frontmatter and fences has exactly one blank line before it
\* unless it is the first line, and after it unless it is the last.
C6_HeadingSpacing ==
    Returned =>
        \A k \in 1..Len(out_lines) :
            is_heading(out_lines[k]) /\ out_regions[k] = "body" =>
                one_blank_before(k) /\ one_blank_after(k)

\* line k of ls is a list item of the body
is_body_item(ls, k) ==
    k >= 1 /\ k <= Len(ls) /\ Regions(ls)[k] = "body" /\ is_list_marker(ls[k])

\* C7: list grouping.  In the returned text the first item of every run of
\* body list items has a blank line before it unless it is the first line,
\* the last item a blank line after it unless it is the last line, and two
\* adjacent items of the input are adjacent in the returned text.
C7_ListGrouping ==
    Returned =>
        /\ \A k \in 1..Len(out_lines) : is_body_item(out_lines, k) =>
              /\ (k > 1 /\ ~is_body_item(out_lines, k - 1)) => is_blank(out_lines[k - 1])
              /\ (k < Len(out_lines) /\ ~is_body_item(out_lines, k + 1))
                    => is_blank(out_lines[k + 1])
        /\ \A k \in 1..(Len(lines) - 1) :
              is_body_item(lines, k) /\ is_body_item(lines, k + 1) =>
                  emitted[k] # 0 /\ emitted[k + 1] = emitted[k] + 1

\* C8: fence span spacing.  In the returned text every opening fence
\* delimiter has exactly one blank line before it unless it is the first
\* line, every closing delimiter exactly one after it unless it is the last.
C8_FenceSpacing ==
    Returned =>
        \A k \in 1..Len(out_lines) :
            /\ out_regions[k] = "fence_open" => one_blank_before(k)
            /\ out_regions[k] = "fence_close" => one_blank_after(k)

\* ---------------------------------------------------------------------
\* Properties of process_md_file (checked under SpecFile)
\* ---------------------------------------------------------------------

\* The outcome of a document that counts as empty.  Deletion allowed: the
\* one call after the read is remove_file, and when it succeeds the file is
\* gone and the result is (true, false).  Deletion not allowed: no call
\* after the read, no normalization, the file as it was, (false, false).
TreatedAsEmpty ==
    IF allow_delete
    THEN /\ Len(fs_ops) = 2
         /\ fs_ops[2][1] = "remove_file"
         /\ IF fs_ops[2][2]
            THEN file = Absent /\ ret = <<TRUE, FALSE>>
            ELSE file = original_content /\ ret = Err
    ELSE /\ Len(fs_ops) = 1
         /\ processed_content = None
         /\ file = original_content
         /\ ret = <<FALSE, FALSE>>

\* C9: whole-document emptiness.  A document without a non-whitespace
\* character is removed and reported deleted when deletion is allowed, and
\* left untouched and reported unchanged when it is not.
C9_WholeEmpty ==
    /\ at = "returned"
    /\ original_content # None
    /\ trim(original_content) = <<>>
    => TreatedAsEmpty

\* C9 witness: a non-empty whitespace-only document was removed.
C9_Witness ==
    /\ at = "returned"
    /\ original_content # None
    /\ original_content # <<>>
    /\ trim(original_content) = <<>>
    /\ allow_delete
    /\ file = Absent
    /\ ret = <<TRUE, FALSE>>

\* the first line is exactly "---", a later line is exactly "---", and
\* nothing but whitespace follows the first such line
is_frontmatter_only(c) ==
    LET ls == str_lines(c)
    IN /\ Len(ls) >= 2
       /\ ls[1] = Dashes
       /\ \E k \in 2..Len(ls) :
             /\ ls[k] = Dashes
             /\ \A j \in 2..(k - 1) : ls[j] # Dashes
             /\ \A j \in (k + 1)..Len(ls) : is_blank(ls[j])

\* C10: frontmatter-only emptiness.  A document that is frontmatter
\* followed by nothing but whitespace has the outcome of a whitespace-only
\* document.
C10_FrontmatterOnly ==
    /\ at = "returned"
    /\ original_content # None
    /\ is_frontmatter_only(original_content)
    => TreatedAsEmpty

\* ---------------------------------------------------------------------
\* Further properties of remove_multiple_blank_lines (checked under Spec)
\* ---------------------------------------------------------------------

\* the input with its line 0 replaced by a line of plain text
with_plain_line_0 == <<"t">> \o SubSeq(content, Len(lines[1]) + 1, Len(content))

\* C11: unterminated frontmatter is body.  When line 0 is "---" and no
\* later line closes it, the returned text is, but for line 0 itself, the
\* text returned for the same document with a plain-text line 0.
C11_UnterminatedIsBody ==
    Returned /\ Unterminated(lines) =>
        LET plain == str_lines(remove_multiple_blank_lines(with_plain_line_0))
        IN /\ Len(out_lines) = Len(plain)
           /\ \A k \in 2..Len(plain) : out_lines[k] = plain[k]
           /\ out_lines[1] = lines[1]

\* ---------------------------------------------------------------------
\* Further properties of process_md_file (checked under SpecFile)
\* ---------------------------------------------------------------------

\* the call went past both emptiness checks
Normalized == at = "returned" /\ processed_content # None

\* C12: modified versus unchanged.  For a document that is not up for
\* deletion the text compared is the normalizer's output; when it differs
\* from the original the one call after the read is a write, which when it
\* succeeds leaves exactly that text in the file and gives (false, true);
\* when it does not differ there is no call after the read, the file is as
\* it was and the result is (false, false).
C12_ModifiedOrUnchanged ==
    Normalized =>
        /\ processed_content = remove_multiple_blank_lines(original_content)
        /\ IF processed_content # original_content
           THEN /\ Len(fs_ops) = 2
                /\ fs_ops[2][1] = "write"
                /\ IF fs_ops[2][2]
                   THEN file = processed_content /\ ret = <<FALSE, TRUE>>
                   ELSE ret = Err
           ELSE /\ Len(fs_ops) = 1
                /\ file = original_content
                /\ ret = <<FALSE, FALSE>>

\* C12 witness: a document that the normalizer changes was written back.
C12_Witness ==
    /\ Normalized
    /\ processed_content # original_content
    /\ Len(fs_ops) = 2
    /\ fs_ops[2] = <<"write", TRUE>>
    /\ file = processed_content
    /\ ret = <<FALSE, TRUE>>

\* the call has returned Ok: no filesystem call of it failed
returned_ok == at = "returned" /\ fs_ops[Len(fs_ops)][2]

\* the calls made so far that change the filesystem
mutating_ops == { k \in 1..Len(fs_ops) : fs_ops[k][1] \in {"remove_file", "write"} }

\* C13: outcome exclusivity.  A call makes at most one call that changes
\* the filesystem; a deleted result comes with no write and no normalized
\* text; the result (true, true) never occurs; nothing is removed when
\* deletion is not allowed.
C13_OutcomeExclusive ==
    /\ Cardinality(mutating_ops) <= 1
    /\ returned_ok => ret # <<TRUE, TRUE>>
    /\ (returned_ok /\ ret[1]) =>
          /\ \A k \in 1..Len(fs_ops) : fs_ops[k][1] # "write"
          /\ processed_content = None
    /\ ~allow_delete =>
          /\ \A k \in 1..Len(fs_ops) : fs_ops[k][1] # "remove_file"
          /\ file # Absent

\* C13 witness: a frontmatter-only document was deleted, by the one call
\* after the read.
C13_Witness ==
    /\ returned_ok
    /\ fs_ops = << <<"read_to_string", TRUE>>, <<"remove_file", TRUE>> >>
    /\ ret = <<TRUE, FALSE>>
    /\ ~is_whole_empty(original_content)
    /\ file = Absent


\* a filesystem call on the document failed
failed(p) == \E k \in 1..Len(fs_log) : fs_log[k][1] = p /\ ~fs_log[k][3]

failed_files == { p \in DOMAIN disk : in_md_files(p) /\ failed(p) }

\* the parallel map has run and returned
collected == main_pc \in {"summary", "exited"} /\ fs_log # <<>>

\* what process_md_file makes of the document as it was found, alone
own_outcome(p) ==
    LET plan == process_md_file(disk0[p].text, cli_delete)
    IN /\ results[p] = ok_result(plan.deleted, plan.modified)
       /\ disk[p] = IF plan.op = "remove_file" THEN [exists |-> FALSE, text |-> <<>>]
                    ELSE IF plan.op = "write" THEN [exists |-> TRUE, text |-> plan.text]
                    ELSE disk0[p]

\* C14: Per-file error isolation. Once the parallel map has returned, every
\* discovered document has been processed; a document none of whose own
\* filesystem calls failed has the outcome it would have alone, whatever
\* happened to the others, and a document with a failed call yields an error.
\* When the process has ended after processing, the error tally is the number
\* of documents with a failed call and the exit status is non-zero if and only
\* if that tally is greater than zero.
C14_ErrorIsolation ==
    collected =>
        /\ \A k \in 1..Len(md_files) :
              LET p == md_files[k]
              IN /\ worker[p] = "done"
                 /\ IF failed(p) THEN results[p] = err_result ELSE own_outcome(p)
        /\ main_pc = "exited" =>
              /\ error_count = Cardinality(failed_files)
              /\ exit_code # 0 <=> error_count > 0

C14_Witness ==
    /\ main_pc = "exited"
    /\ Len(md_files) = 2
    /\ failed(md_files[1])
    /\ ~failed(md_files[2])
    /\ results[md_files[2]] = ok_result(FALSE, TRUE)
    /\ disk[md_files[2]] # disk0[md_files[2]]
    /\ error_count = 1
    /\ exit_code = 1

\* C15: Dry run mutates nothing. With the dry-run flag set, whatever the
\* discovered files and the delete flag, no filesystem call is ever made on a
\* document: none is read for processing, written or deleted, and every
\* document stays as it was found.
C15_DryRunMutatesNothing ==
    cli_dry_run =>
        /\ fs_log = <<>>
        /\ disk = disk0
        /\ \A p \in DOMAIN disk : worker[p] = "pending" /\ results[p] = no_result

C15_Witness ==
    /\ cli_dry_run
    /\ cli_delete
    /\ main_pc = "exited"
    /\ exit_code = 0
    /\ Len(md_files) = 2
    /\ \E k \in 1..2 : process_md_file(disk[md_files[k]].text, cli_delete).op = "remove_file"
    /\ \E k \in 1..2 : process_md_file(disk[md_files[k]].text, cli_delete).op = "write"


\* ---------------------------------------------------------------------
\* Properties of fences (checked under SpecFence)
\* ---------------------------------------------------------------------

\* the marker a delimiter line starts with, and the other one
marker_of(line) == IF starts_with(trim(line), Backticks) THEN Backticks ELSE Tildes
other_marker(m) == IF m = Backticks THEN Tildes ELSE Backticks

\* a fence is open when line k is reached, and the line that opened it
fence_open_at(k) == k > 1 /\ k <= Len(kind) + 1 /\ kind[k - 1] \in {"fence_start", "in_fence"}
opener(k) ==
    CHOOSE o \in 1..(k - 1) :
        kind[o] = "fence_start" /\ \A j \in (o + 1)..(k - 1) : kind[j] = "in_fence"

\* line k was pushed as it is, directly after the line pushed before it
pushed_in_place(k) ==
    /\ emitted[k] # 0
    /\ result[emitted[k]] = lines[k]
    /\ emitted[k] = emitted[prev_emitted(k)] + 1

\* C16: fence marker identity.  While a fence is open the recorded marker is
\* the one its opening line starts with.  A line that starts with the other
\* marker is handled as an interior line: it is pushed as it is with no
\* separator, and the fence stays open with the same marker.  A line that
\* starts with the same marker closes the fence, also when it has more marker
\* characters than the opening line.
C16_FenceMarkerIdentity ==
    /\ (pc = "scan" /\ i <= Len(lines)) =>
          /\ in_code_fence = fence_open_at(i)
          /\ in_code_fence => code_fence_marker = marker_of(lines[opener(i)])
    /\ \A k \in 1..Len(kind) : fence_open_at(k) =>
          LET m == marker_of(lines[opener(k)])
              t == trim(lines[k])
          IN /\ starts_with(t, other_marker(m)) =>
                   /\ kind[k] = "in_fence"
                   /\ pushed_in_place(k)
                   /\ fence_open_at(k + 1)
                   /\ opener(k + 1) = opener(k)
             /\ starts_with(t, m) =>
                   /\ kind[k] = "fence_end"
                   /\ ~fence_open_at(k + 1)

C16_Witness ==
    /\ Scanned
    /\ \E k \in 3..Len(lines) :
          /\ trim(lines[k - 2]) = Backticks
          /\ kind[k - 2] = "fence_start"
          /\ starts_with(trim(lines[k - 1]), Tildes)
          /\ kind[k - 1] = "in_fence"
          /\ trim(lines[k]) = Backticks4
          /\ kind[k] = "fence_end"

\* the first line after o that starts with the marker m, or 0
first_with_marker(o, m) ==
    LET ks == { k \in (o + 1)..Len(lines) : starts_with(trim(lines[k]), m) }
    IN IF ks = {} THEN 0 ELSE CHOOSE k \in ks : \A j \in ks : k <= j

\* the first marker line after c, or the line count plus one
next_marker_line(c) ==
    LET ks == { k \in (c + 1)..Len(lines) : is_fence_marker(lines[k]) }
    IN IF ks = {} THEN Len(lines) + 1 ELSE CHOOSE k \in ks : \A j \in ks : k <= j

\* C17: the first same-marker line closes.  For every line that opens a
\* fence, the first later line whose trimmed form starts with the opener's
\* marker closes the fence, whatever text follows the marker on it; the lines
\* between are interior lines.  The lines after the closing line up to the
\* next marker line are body lines: a non-blank one directly after the closing
\* line is separated from it by one blank line, runs of blank lines collapse
\* to one, a heading has a blank line before it; and the next marker line
\* opens a new fence.
C17_FirstSameMarkerCloses ==
    Scanned =>
        \A o \in 1..Len(kind) : kind[o] = "fence_start" =>
            LET c == first_with_marker(o, marker_of(lines[o]))
                n == next_marker_line(c)
            IN c # 0 =>
                /\ kind[c] = "fence_end"
                /\ result[emitted[c]] = lines[c]
                /\ \A k \in (o + 1)..(c - 1) : kind[k] = "in_fence"
                /\ \A k \in (c + 1)..(n - 1) :
                      /\ kind[k] = "body"
                      /\ (is_blank(lines[k]) /\ k - 1 > c /\ is_blank(lines[k - 1])) => emitted[k] = 0
                      /\ is_heading(lines[k]) => is_blank(result[emitted[k] - 1])
                /\ (c + 1 <= Len(lines) /\ ~is_blank(lines[c + 1])) =>
                      /\ result[emitted[c] + 1] = <<>>
                      /\ emitted[c + 1] = emitted[c] + 2
                /\ n <= Len(lines) => kind[n] = "fence_start"

C17_Witness ==
    /\ Scanned
    /\ Len(lines) = 4
    /\ lines[1] = Backticks
    /\ lines[2] = BackticksInfo
    /\ kind = <<"fence_start", "fence_end", "body", "fence_start">>
    /\ result = <<lines[1], lines[2], <<>>, lines[3], <<>>, lines[4]>>


\* ---------------------------------------------------------------------
\* Properties of the frontmatter mode of the scan (checked under Spec)
\* ---------------------------------------------------------------------

\* the branches of the scan that handle frontmatter lines
frontmatter_kinds == {"frontmatter_start", "in_frontmatter", "frontmatter_end"}

\* C18: frontmatter is entered only at line 0.  No line but line 0 opens
\* frontmatter.  When line 0 is not --- the scan is in frontmatter mode at no
\* line.  After the line that closes frontmatter the scan is never again in
\* frontmatter mode.  A --- line met later, frontmatter not being open, is
\* pushed as it is by the body branch (by the fence branch inside an open
\* fence); the line after it is no frontmatter line, a blank line after it is
\* kept and a second one is dropped.
C18_FrontmatterOnlyAtLine0 ==
    /\ \A k \in 1..Len(kind) : kind[k] = "frontmatter_start" => k = 1
    /\ (lines # <<>> /\ trim(lines[1]) # Dashes) =>
          /\ ~in_frontmatter
          /\ \A k \in 1..Len(kind) : kind[k] \notin frontmatter_kinds
    /\ \A k \in 1..Len(kind) : kind[k] = "frontmatter_end" =>
          /\ ~in_frontmatter
          /\ \A j \in (k + 1)..Len(kind) : kind[j] \notin frontmatter_kinds
    /\ \A k \in 2..Len(kind) : (trim(lines[k]) = Dashes /\ kind[k] # "frontmatter_end") =>
          /\ kind[k] \in {"body", "in_fence"}
          /\ emitted[k] # 0
          /\ result[emitted[k]] = lines[k]
          /\ k + 1 <= Len(kind) => kind[k + 1] \notin frontmatter_kinds
          /\ (kind[k] = "body" /\ k + 1 <= Len(kind) /\ is_blank(lines[k + 1])) =>
                /\ emitted[k + 1] = emitted[k] + 1
                /\ (k + 2 <= Len(kind) /\ is_blank(lines[k + 2])) => emitted[k + 2] = 0

C18_Witness ==
    /\ Scanned
    /\ Len(lines) = 4
    /\ trim(lines[1]) = Dashes
    /\ trim(lines[2]) = Dashes
    /\ trim(lines[3]) = Dashes
    /\ is_blank(lines[4])
    /\ kind = <<"frontmatter_start", "frontmatter_end", "body", "body">>
    /\ result = <<lines[1], lines[2], <<>>, lines[3], lines[4]>>
    /\ ~in_frontmatter


\* the first non-blank input line after line c, or 0
first_non_blank_after(c) ==
    LET ks == { k \in (c + 1)..Len(lines) : ~is_blank(lines[k]) }
    IN IF ks = {} THEN 0 ELSE CHOOSE k \in ks : \A j \in ks : k <= j

\* C19 (checked under SpecLong): frontmatter-to-body separator.  In the
\* returned text the closing frontmatter delimiter is followed by exactly one
\* blank line and then by the first non-blank line of the body, whether the
\* input had no, one or several blank lines between them; when the closing
\* delimiter is the last line of the input the returned text has the lines
\* of the input and no more.
C19_FrontmatterSeparator ==
    Returned /\ has_frontmatter(lines) =>
        LET c == first_closing(lines)
            nb == first_non_blank_after(c)
        IN /\ kind[c] = "frontmatter_end"
           /\ Len(out_lines) >= c
           /\ out_lines[c] = lines[c]
           /\ nb # 0 =>
                 /\ Len(out_lines) >= c + 2
                 /\ is_blank(out_lines[c + 1])
                 /\ out_lines[c + 2] = lines[nb]
           /\ c = Len(lines) => out_lines = lines

C19_Witness ==
    /\ pc = "done"
    /\ Len(lines) = 5
    /\ has_frontmatter(lines)
    /\ first_closing(lines) = 2
    /\ is_blank(lines[3])
    /\ is_blank(lines[4])
    /\ ~is_blank(lines[5])
    /\ out_lines = <<lines[1], lines[2], <<>>, lines[5]>>


\* ---------------------------------------------------------------------
\* Where the scan pushes lines that are not in the input (checked under Spec)
\* ---------------------------------------------------------------------

\* the places of result that hold no input line
synthetic == { s \in 1..Len(result) : \A k \in 1..Len(emitted) : emitted[k] # s }

\* the input line pushed at place s of result
line_at(s) == CHOOSE k \in 1..Len(emitted) : emitted[k] = s

\* line k of the input, reg being the regions of its lines
is_body_heading(reg, k) == reg[k] = "body" /\ is_heading(lines[k])
is_item(reg, k) == k >= 1 /\ k <= Len(lines) /\ reg[k] = "body" /\ is_list_marker(lines[k])
is_first_item(reg, k) == is_item(reg, k) /\ ~is_item(reg, k - 1)
is_last_item(reg, k) == is_item(reg, k) /\ ~is_item(reg, k + 1)
is_plain_text(reg, k) ==
    /\ reg[k] = "body"
    /\ ~is_blank(lines[k])
    /\ ~is_heading(lines[k])
    /\ ~is_list_marker(lines[k])

\* a separator may follow line k, may precede line k
boundary_above(reg, k) ==
    \/ is_body_heading(reg, k)
    \/ is_last_item(reg, k)
    \/ reg[k] \in {"fence_close", "fm_close"}

boundary_below(reg, k) ==
    \/ is_body_heading(reg, k)
    \/ is_first_item(reg, k)
    \/ reg[k] = "fence_open"

\* C20: separators only at structural boundaries.  Every line of the result
\* that is not an input line is empty, is neither the first nor the last
\* line, lies between two input lines, and the one above it is a heading, the
\* last item of a list group, a closing fence delimiter or the closing
\* frontmatter delimiter, or the one below it is a heading, the first item of
\* a list group or an opening fence delimiter.  Two adjacent plain-text lines
\* of the input are adjacent in the result.  The lines of the returned text
\* are blank where the first lines of the result are, and no more in number.
C20_SeparatorsAtBoundaries ==
    Scanned =>
        LET reg == Regions(lines)
        IN /\ \A s \in synthetic :
                 /\ result[s] = <<>>
                 /\ s > 1
                 /\ s < Len(result)
                 /\ (s - 1) \notin synthetic
                 /\ (s + 1) \notin synthetic
                 /\ boundary_above(reg, line_at(s - 1)) \/ boundary_below(reg, line_at(s + 1))
           /\ \A k \in 1..(Len(lines) - 1) :
                 (is_plain_text(reg, k) /\ is_plain_text(reg, k + 1)) =>
                     emitted[k + 1] = emitted[k] + 1
           /\ Returned =>
                 /\ Len(out_lines) <= Len(result)
                 /\ \A k \in 1..Len(out_lines) : is_blank(out_lines[k]) = is_blank(result[k])

C20_Witness ==
    /\ pc = "done"
    /\ lines = << <<"t">>, <<"t">>, <<"#", SP, "h">>, <<"t">> >>
    /\ synthetic = {3, 5}
    /\ emitted = <<1, 2, 4, 6>>
    /\ Len(out_lines) = 6


\* ---------------------------------------------------------------------
\* Properties of the parallel map of main (checked under SpecMain)
\* ---------------------------------------------------------------------

\* the filesystem calls made on path p: all of them, the reads, the others
calls_on(p) == { k \in 1..Len(fs_log) : fs_log[k][1] = p }
reads_of(p) == { k \in calls_on(p) : fs_log[k][2] = "read_to_string" }
changes_of(p) == { k \in calls_on(p) : fs_log[k][2] \in {"write", "remove_file"} }

\* what process_md_file decides for the document as it was found
plan_of(p) == process_md_file(disk0[p].text, cli_delete)

\* the discovered documents by what their own processing comes to
files_found == { p \in DOMAIN disk : in_md_files(p) }
files_errored == { p \in files_found : failed(p) }
files_deleted == { p \in files_found : ~failed(p) /\ plan_of(p).deleted }
files_modified == { p \in files_found : ~failed(p) /\ plan_of(p).modified }
files_unchanged ==
    { p \in files_found : ~failed(p) /\ ~plan_of(p).deleted /\ ~plan_of(p).modified }

\* C21: parallel dispatch.  In every state of every interleaving of the
\* tasks: each path occurs once in the file list; only discovered paths are
\* touched; a path is read at most once and written or removed at most once,
\* after its own successful read; a task that has not started finds its
\* document as it was discovered, a task that has read holds the text as it
\* was discovered, and a finished task has the result its own document and
\* its own failures give it, wherever the other tasks are.  At the end the
\* counts of deleted, modified and failed documents are the numbers of
\* documents with that outcome, and with the unchanged ones they add up to
\* the number of files processed.
C21_ParallelDispatch ==
    /\ \A j, k \in 1..Len(md_files) : md_files[j] = md_files[k] => j = k
    /\ \A p \in DOMAIN disk :
          /\ ~in_md_files(p) => calls_on(p) = {} /\ worker[p] = "pending"
          /\ Cardinality(reads_of(p)) <= 1
          /\ Cardinality(changes_of(p)) <= 1
          /\ \A k \in changes_of(p) :
                \E r \in reads_of(p) : r < k /\ fs_log[r][3]
          /\ worker[p] = "pending" =>
                calls_on(p) = {} /\ disk[p] = disk0[p] /\ results[p] = no_result
          /\ worker[p] = "read" =>
                /\ Cardinality(calls_on(p)) = 1
                /\ worker_content[p] = disk0[p].text
                /\ disk[p] = disk0[p]
                /\ results[p] = no_result
          /\ worker[p] = "done" =>
                /\ Cardinality(reads_of(p)) = 1
                /\ IF failed(p) THEN results[p] = err_result ELSE own_outcome(p)
    /\ (main_pc = "exited" /\ fs_log # <<>>) =>
          /\ deleted_count = Cardinality(files_deleted)
          /\ modified_count = Cardinality(files_modified)
          /\ error_count = Cardinality(files_errored)
          /\ deleted_count + modified_count + error_count + Cardinality(files_unchanged)
                = Len(md_files)

C21_Witness ==
    /\ main_pc = "exited"
    /\ Len(md_files) = 2
    /\ Len(fs_log) = 4
    /\ fs_log[1] = <<md_files[2], "read_to_string", TRUE>>
    /\ fs_log[2] = <<md_files[1], "read_to_string", TRUE>>
    /\ fs_log[3] = <<md_files[1], "write", TRUE>>
    /\ fs_log[4] = <<md_files[2], "remove_file", TRUE>>
    /\ modified_count = 1
    /\ deleted_count = 1
    /\ error_count = 0


\* ---------------------------------------------------------------------
\* Properties of the text as a whole (checked under SpecRaw)
\* ---------------------------------------------------------------------

\* the non-blank lines of ls, in order
non_blank_lines(ls) ==
    LET non_blank(l) == ~is_blank(l)
    IN SelectSeq(ls, non_blank)

\* C22: content preservation.  The non-blank lines of the returned text are
\* the non-blank lines of the input, the same lines in the same order.
C22_ContentPreservation ==
    Returned => non_blank_lines(out_lines) = non_blank_lines(lines)


\* ---------------------------------------------------------------------
\* The locals of the scan (checked under SpecFence)
\* ---------------------------------------------------------------------

\* C23: scan-state invariant.  Before the first line both flags are false.
\* Before and after every line of the scan, in_frontmatter and in_code_fence
\* are not both true, code_fence_marker is one of the two markers when
\* in_code_fence is true and is empty when it is false.
C23_ScanState ==
    /\ (pc = "scan" /\ i = 1) => ~in_frontmatter /\ ~in_code_fence
    /\ ~(in_frontmatter /\ in_code_fence)
    /\ in_code_fence => code_fence_marker \in {Backticks, Tildes}
    /\ ~in_code_fence => code_fence_marker = <<>>

C23_Witness ==
    /\ pc = "scan"
    /\ i = 5
    /\ kind = <<"frontmatter_start", "frontmatter_end", "fence_start", "fence_end">>
    /\ lines[3] = Backticks4
    /\ ~in_code_fence
    /\ ~in_frontmatter
    /\ code_fence_marker = <<>>


\* ---------------------------------------------------------------------
\* The two readings of frontmatter in process_md_file (checked under SpecFile)
\* ---------------------------------------------------------------------

\* the line at which the frontmatter slice of process_md_file ends, or 0
classifier_close(c) ==
    LET fb == split_frontmatter(c)
    IN IF fb.frontmatter
       THEN Len(str_lines(SubSeq(c, 1, Len(c) - Len(fb.body))))
       ELSE 0

\* the line at which the scan of remove_multiple_blank_lines leaves
\* frontmatter mode, or 0
normalizer_close(c) ==
    LET st == scan_from(str_lines(c), 1, scan_start)
        ks == { k \in 1..Len(st.kind) : st.kind[k] = "frontmatter_end" }
    IN IF ks = {} THEN 0 ELSE CHOOSE k \in ks : TRUE

\* C24: classifier and normalizer agree on the frontmatter extent.  When
\* process_md_file finds frontmatter in a document, its frontmatter slice
\* ends at the line at which the scan of remove_multiple_blank_lines leaves
\* frontmatter mode; and when it then takes the body to be empty, every line
\* after that line is blank.
C24_FrontmatterExtentAgrees ==
    (/\ at = "returned"
     /\ fs_ops[1][2]
     /\ split_frontmatter(original_content).frontmatter) =>
        LET ls == str_lines(original_content)
            n == normalizer_close(original_content)
        IN /\ classifier_close(original_content) = n
           /\ is_body_empty(original_content) =>
                 \A k \in (n + 1)..Len(ls) : is_blank(ls[k])

====
